---- MODULE Spec2Model ----
(***************************************************************************)
(* Model of the traversal and root-discovery commands of notion-cli:       *)
(*   page get          - commands/page.ts (fetchBlocksAtLevel,             *)
(*                       fetchBlocksRecursive, output)                     *)
(*   integration pages - integrationPagesCommand (search cursor loop and   *)
(*                       root filter)                                      *)
(*   search            - commands/search.ts (option checks, workspace mode *)
(*                       loop, normal mode)                                *)
(*   auth-internal     - commands/auth-internal.ts (set, clear) over the   *)
(*                       config file of helpers.ts                         *)
(*   auth-public       - login, logout over the same config file           *)
(* One step of the model is one turn of the Node.js event loop: the        *)
(* arrival of one HTTP response together with every continuation that     *)
(* runs synchronously or as a microtask because of it.                     *)
(***************************************************************************)
EXTENDS Integers, Sequences, FiniteSets, TLC

\* ------------------------------------------------------------------------
\* Bounds of the model
\* ------------------------------------------------------------------------

\* Largest number of items the remote endpoint puts in one response.
ServerPageCap == 2

\* ------------------------------------------------------------------------
\* JavaScript values used by the cursor loops
\* ------------------------------------------------------------------------

Undefined == "undefined"
Null == "null"
EmptyString == ""

\* Truthiness of a cursor value as tested by `while (cursor)`.
Truthy(v) == v \notin {Undefined, Null, EmptyString}

\* The `??` operator: the right operand replaces null and undefined only.
NullishCoalesce(v, d) == IF v \in {Null, Undefined} THEN d ELSE v

Min(a, b) == IF a < b THEN a ELSE b

\* page_size sent with every retrieveChildren request.
BLOCKS_PAGE_SIZE == 100

\* page_size sent with every search request of `integration pages`.
SEARCH_PAGE_SIZE == 100

\* ------------------------------------------------------------------------
\* The remote workspace: one page and its block tree
\* ------------------------------------------------------------------------

PageId == "P"

\* A page that holds no block.
EmptyPageId == "Q"

PageIds == {PageId, EmptyPageId}

\* Every block as the API returns it. `text` is the block's rich text.
RemoteBlock ==
  [ A   |-> [type |-> "toggle",             has_children |-> TRUE,  text |-> "a"],
    B   |-> [type |-> "child_page",         has_children |-> TRUE,  text |-> ""],
    C   |-> [type |-> "toggle",             has_children |-> TRUE,  text |-> "c"],
    D   |-> [type |-> "paragraph",          has_children |-> FALSE, text |-> ""],
    E   |-> [type |-> "bulleted_list_item", has_children |-> TRUE,  text |-> "e"],
    A1  |-> [type |-> "toggle",             has_children |-> TRUE,  text |-> "a1"],
    A2  |-> [type |-> "child_database",     has_children |-> TRUE,  text |-> ""],
    A3  |-> [type |-> "paragraph",          has_children |-> FALSE, text |-> "a3"],
    B1  |-> [type |-> "paragraph",          has_children |-> FALSE, text |-> "b1"],
    C1  |-> [type |-> "column_list",        has_children |-> FALSE, text |-> ""],
    E1  |-> [type |-> "paragraph",          has_children |-> FALSE, text |-> "e1"],
    A1a |-> [type |-> "paragraph",          has_children |-> FALSE, text |-> "a1a"],
    A2x |-> [type |-> "paragraph",          has_children |-> FALSE, text |-> "a2x"] ]

BlockIds == DOMAIN RemoteBlock

\* The ordered child list the remote store holds for every ID.
RemoteChildren ==
  [ P   |-> <<"A", "B", "C", "D", "E">>,
    Q   |-> <<>>,
    A   |-> <<"A1", "A2", "A3">>,
    B   |-> <<"B1">>,
    C   |-> <<"C1">>,
    D   |-> <<>>,
    E   |-> <<"E1">>,
    A1  |-> <<"A1a">>,
    A2  |-> <<"A2x">>,
    A3  |-> <<>>,
    B1  |-> <<>>,
    C1  |-> <<>>,
    E1  |-> <<>>,
    A1a |-> <<>>,
    A2x |-> <<>> ]

TaskIds == DOMAIN RemoteChildren

\* The block (or page) whose child list contains b.
RemoteParent(b) == CHOOSE p \in TaskIds : \E i \in 1..Len(RemoteChildren[p]) : RemoteChildren[p][i] = b

\* Errors a request can be rejected with.
Errors == {"object_not_found", "rate_limited"}

\* ------------------------------------------------------------------------
\* Cursors: the opaque token for "continue after the first k items"
\* ------------------------------------------------------------------------

CursorTokens ==
  <<"c1", "c2", "c3", "c4", "c5", "c6", "c7", "c8", "c9", "c10", "c11", "c12">>

EncodeCursor(k) == CursorTokens[k]

DecodeCursor(c) ==
  IF c = Undefined THEN 0
  ELSE CHOOSE k \in 1..Len(CursorTokens) : CursorTokens[k] = c

\* The well-formed response of a list endpoint over `items`.
RemotePage(items, start_cursor, page_size) ==
  LET off  == DecodeCursor(start_cursor)
      last == Min(off + Min(page_size, ServerPageCap), Len(items))
  IN  [ ok          |-> TRUE,
        results     |-> SubSeq(items, off + 1, last),
        has_more    |-> last < Len(items),
        next_cursor |-> IF last < Len(items) THEN EncodeCursor(last) ELSE Null,
        error       |-> "" ]

\* A response is malformed when it announces more items without a usable cursor.
Malformed(resp) == resp.ok /\ resp.has_more /\ ~Truthy(resp.next_cursor)

\* Every response the endpoint may give to one request: the well-formed one,
\* or one that sets has_more but carries a null or empty next_cursor.
RemoteResponses(items, start_cursor, page_size) ==
  LET good == RemotePage(items, start_cursor, page_size)
  IN  {good} \cup
      { [good EXCEPT !.has_more = TRUE, !.next_cursor = n] : n \in {Null, EmptyString} }

Rejection(e) ==
  [ ok |-> FALSE, results |-> <<>>, has_more |-> FALSE, next_cursor |-> Null, error |-> e ]


\* ------------------------------------------------------------------------
\* State
\* ------------------------------------------------------------------------

VARIABLES
  pc,         \* "idle", "retrieving", "traversing", "searching",
              \* "workspace_search", "normal_search", "exited"
  cmd,        \* the command that was invoked
  snapshot,   \* the revision of commands/page.ts that runs: "page.ts" or "part_007"
  pageId,     \* the <page-id> argument of `page get`
  raw,        \* the --raw option of `page get`
  tasks,      \* one fetchBlocksRecursive activation per block ID
  allBlocks,  \* the array shared by all activations of fetchBlocksRecursive
  listing,    \* the objects the remote search index holds, in result order
  allPages,   \* the accumulator of the search loop of `integration pages`
  cursor,     \* the cursor variable of the search loop
  options,    \* the options of `search`: workspace, cursor, limit, filter
  workspacePages, \* the accumulator of the loop of `search --workspace`
  totalScanned,   \* the counter of the loop of `search --workspace`
  config,     \* the content of ~/.notion-cli/config.json
  env,        \* process.env.NOTION_TOKEN
  history,    \* the auth commands run so far, one process each
  received,   \* the responses received so far
  requests,   \* every request issued so far, in issue order
  failed,     \* every request that was rejected, with the items its loop held
  malformed,  \* TRUE once a malformed response was delivered
  stdout,
  stderr,
  exitCode    \* the status the process ends with: 0 unless process.exit(1) ran

vars ==
  << pc, cmd, snapshot, pageId, raw, tasks, allBlocks, listing, allPages, cursor,
     options, workspacePages, totalScanned, config, env, history, received, requests,
     failed, malformed, stdout, stderr, exitCode >>

pageGetVars == << snapshot, pageId, raw, tasks, allBlocks >>

searchVars == << options, workspacePages, totalScanned >>

authVars == << config, env, history >>

Range(s) == { s[i] : i \in 1..Len(s) }

Ids(blocks) == [ i \in 1..Len(blocks) |-> blocks[i].id ]

IdleTask ==
  [ st |-> "idle", cursor |-> Undefined, blocks |-> <<>>, depth |-> 0,
    kids |-> <<>>, caller |-> "", err |-> "" ]

Line(kind, id, indent, blocks) ==
  [ kind |-> kind, id |-> id, indent |-> indent, blocks |-> blocks ]

Request(endpoint, target, start_cursor, page_size) ==
  [ endpoint |-> endpoint, target |-> target, start_cursor |-> start_cursor,
    page_size |-> page_size ]

\* console.error(`Error: ${error.message}`)
ErrorLine(e) == Line("error", e, 0, <<>>)

\* The record of a response, with the cursor of the request it answers.
Received(endpoint, target, start_cursor, resp) ==
  [ endpoint |-> endpoint, target |-> target, start_cursor |-> start_cursor,
    has_more |-> resp.has_more, next_cursor |-> resp.next_cursor ]

\* ------------------------------------------------------------------------
\* page get: fetchBlocksAtLevel
\* ------------------------------------------------------------------------

\* A variant with the branches of the conditional exchanged.
NextCursorInverted(resp) ==
  IF resp.has_more THEN Undefined ELSE NullishCoalesce(resp.next_cursor, Undefined)

\* A variant that continues after the first item whatever the response says.
NextCursorFirstToken(resp) ==
  IF resp.has_more THEN EncodeCursor(1) ELSE Undefined

\* cursor = response.has_more ? (response.next_cursor ?? undefined) : undefined
NextCursor(resp) ==
  IF resp.has_more THEN NullishCoalesce(resp.next_cursor, Undefined) ELSE Undefined

\* A variant of the inner loop that skips the first block of a response.
TagAndPushSkippingFirst(blocks, results, depth) ==
  IF results = <<>> THEN blocks
  ELSE blocks \o [ i \in 1..(Len(results) - 1) |-> [id |-> results[i + 1], depth |-> depth] ]

\* The inner for loop: every block of the response is tagged and pushed.
TagAndPush(blocks, results, depth) ==
  blocks \o [ i \in 1..Len(results) |-> [id |-> results[i], depth |-> depth] ]

\* A variant that gives up on a rejected request and returns what it has.
FetchBlocksAtLevelStepPartial(blocks, depth, resp) ==
  IF ~resp.ok
  THEN [kind |-> "return", blocks |-> blocks, cursor |-> Undefined, error |-> ""]
  ELSE LET pushed == TagAndPush(blocks, resp.results, depth)
           next   == NextCursor(resp)
       IN  IF Truthy(next)
           THEN [kind |-> "await", blocks |-> pushed, cursor |-> next, error |-> ""]
           ELSE [kind |-> "return", blocks |-> pushed, cursor |-> Undefined, error |-> ""]

\* A variant that throws when a response announces more items without a
\* usable cursor.
FetchBlocksAtLevelStepStrict(blocks, depth, resp) ==
  IF ~resp.ok \/ Malformed(resp)
  THEN [kind |-> "throw", blocks |-> <<>>, cursor |-> Undefined, error |-> resp.error]
  ELSE LET pushed == TagAndPush(blocks, resp.results, depth)
           next   == NextCursor(resp)
       IN  IF Truthy(next)
           THEN [kind |-> "await", blocks |-> pushed, cursor |-> next, error |-> ""]
           ELSE [kind |-> "return", blocks |-> pushed, cursor |-> Undefined, error |-> ""]

\* One iteration of the do/while loop, resumed by the settled request:
\* a rejection is thrown out of the function, a response is accumulated and
\* the loop either issues the next request or returns the local array.
FetchBlocksAtLevelStep(blocks, depth, resp) ==
  IF ~resp.ok
  THEN [kind |-> "throw", blocks |-> <<>>, cursor |-> Undefined, error |-> resp.error]
  ELSE LET pushed == TagAndPush(blocks, resp.results, depth)
           next   == NextCursor(resp)
       IN  IF Truthy(next)
           THEN [kind |-> "await", blocks |-> pushed, cursor |-> next, error |-> ""]
           ELSE [kind |-> "return", blocks |-> pushed, cursor |-> Undefined, error |-> ""]

\* ------------------------------------------------------------------------
\* page get: fetchBlocksRecursive
\* ------------------------------------------------------------------------

\* A variant of the filter that forgets the child page/database exclusion.
ShouldRecurseIgnoringType(block) == RemoteBlock[block.id].has_children

\* A variant of the filter that forgets the has_children flag.
ShouldRecurseIgnoringFlag(block) ==
  RemoteBlock[block.id].type \notin {"child_page", "child_database"}

\* The filter predicate of blocksToRecurse.
ShouldRecurse(block) ==
  LET isChildPage == RemoteBlock[block.id].type \in {"child_page", "child_database"}
  IN  RemoteBlock[block.id].has_children /\ ~isChildPage

\* A variant that lists every block to recurse into twice.
BlocksToRecurseTwice(blocks) == SelectSeq(blocks \o blocks, ShouldRecurse)

BlocksToRecurse(blocks) == SelectSeq(blocks, ShouldRecurse)

\* A variant that passes its own depth down unchanged.
RecursionDepthSame(depth) == depth

\* A variant that skips a level at every recursive call.
RecursionDepthTwo(depth) == depth + 2

\* The depth argument of the recursive call.
RecursionDepth(depth) == depth + 1

\* A variant with the semantics of Promise.allSettled: it never rejects.
PromiseAllSettled(ps) ==
  IF \A i \in 1..Len(ps) : ps[i].st \in {"fulfilled", "rejected"}
  THEN [st |-> "fulfilled", err |-> ""]
  ELSE [st |-> "pending", err |-> ""]

\* A variant that is fulfilled as soon as one of the promises is fulfilled.
PromiseAllFirstFulfilled(ps) ==
  IF \E i \in 1..Len(ps) : ps[i].st = "rejected"
  THEN LET i == CHOOSE j \in 1..Len(ps) :
                  /\ ps[j].st = "rejected"
                  /\ \A k \in 1..(j - 1) : ps[k].st # "rejected"
       IN  [st |-> "rejected", err |-> ps[i].err]
  ELSE IF \E i \in 1..Len(ps) : ps[i].st = "fulfilled"
  THEN [st |-> "fulfilled", err |-> ""]
  ELSE [st |-> "pending", err |-> ""]

\* A variant that is never fulfilled: it only passes a rejection on.
PromiseAllNeverFulfilled(ps) ==
  IF \E i \in 1..Len(ps) : ps[i].st = "rejected"
  THEN LET i == CHOOSE j \in 1..Len(ps) :
                  /\ ps[j].st = "rejected"
                  /\ \A k \in 1..(j - 1) : ps[k].st # "rejected"
       IN  [st |-> "rejected", err |-> ps[i].err]
  ELSE [st |-> "pending", err |-> ""]

\* Promise.all over the promises ps: rejected as soon as one is rejected,
\* fulfilled once all are fulfilled, pending otherwise.
PromiseAll(ps) ==
  IF \E i \in 1..Len(ps) : ps[i].st = "rejected"
  THEN LET i == CHOOSE j \in 1..Len(ps) :
                  /\ ps[j].st = "rejected"
                  /\ \A k \in 1..(j - 1) : ps[k].st # "rejected"
       IN  [st |-> "rejected", err |-> ps[i].err]
  ELSE IF \A i \in 1..Len(ps) : ps[i].st = "fulfilled"
  THEN [st |-> "fulfilled", err |-> ""]
  ELSE [st |-> "pending", err |-> ""]

\* A variant that puts the blocks of a level in front of the result.
PushLevelInFront(all, blocks) == blocks \o all

\* allBlocks.push(...blocks): the blocks of one level are appended in one
\* synchronous call.
PushLevel(all, blocks) == all \o blocks

\* The synchronous start of fetchBlocksRecursive(id, depth): it runs into
\* fetchBlocksAtLevel, which issues the first request and suspends.
Launched(depth, caller) ==
  [ st |-> "fetching", cursor |-> Undefined, blocks |-> <<>>, depth |-> depth,
    kids |-> <<>>, caller |-> caller, err |-> "" ]

\* blocksToRecurse.map(...): one activation per block, started in order.
LaunchAll(ts, kids, depth, caller) ==
  [ x \in DOMAIN ts |-> IF x \in Range(kids) THEN Launched(depth, caller) ELSE ts[x] ]

\* A variant in which no caller observes the settling of its activations.
SettleUnobserved(ts, t) == ts

\* The microtasks that follow the settling of activation t: the Promise.all
\* its caller awaits is re-evaluated, and so on up to the outermost call.
RECURSIVE Settle(_, _)
Settle(ts, t) ==
  IF t = pageId \/ ts[t].st \notin {"fulfilled", "rejected"} THEN ts
  ELSE LET p == ts[t].caller
           r == PromiseAll([ i \in 1..Len(ts[p].kids) |-> ts[ts[p].kids[i]] ])
       IN  IF ts[p].st # "joining" \/ r.st = "pending" THEN ts
           ELSE Settle([ts EXCEPT ![p].st = r.st, ![p].err = r.err], p)

\* ------------------------------------------------------------------------
\* page get: output
\* ------------------------------------------------------------------------

\* formatBlock: the empty string for blocks that print nothing.
FormatBlock(block, indent) ==
  LET b == RemoteBlock[block.id]
  IN  IF \/ (b.type = "paragraph" /\ b.text = "")
         \/ b.type \in {"table_row", "column_list", "column"}
      THEN <<>>
      ELSE << Line("block", block.id, indent, <<>>) >>

RECURSIVE FormatAll(_)
FormatAll(blocks) ==
  IF blocks = <<>> THEN <<>>
  ELSE FormatBlock(Head(blocks), 2 * Head(blocks).depth) \o FormatAll(Tail(blocks))

\* What the action prints once `await fetchBlocksRecursive(pageId)` returns.
RenderBlocks(blocks, rawOpt) ==
  IF Len(blocks) = 0 THEN << Line("no_blocks", "", 0, <<>>) >>
  ELSE IF rawOpt THEN << Line("json_array", "", 0, blocks) >>
  ELSE << Line("content_header", "", Len(blocks), <<>>), Line("rule", "", 0, <<>>) >>
       \o FormatAll(blocks) \o << Line("rule", "", 0, <<>>) >>


\* The revision at src/unnamed/part_007 prints after the traversal: with
\* --raw one JSON object {page, blocks} and nothing else, otherwise the
\* banner, the metadata and the content.
RenderPageAndBlocks(page, blocks, rawOpt) ==
  IF rawOpt THEN << Line("json_object", page, 0, blocks) >>
  ELSE << Line("banner", "", 0, <<>>), Line("metadata", page, 0, <<>>) >>
       \o IF Len(blocks) = 0 THEN << Line("no_blocks", "", 0, <<>>) >>
          ELSE << Line("content_header", "", Len(blocks), <<>>), Line("rule", "", 0, <<>>) >>
               \o FormatAll(blocks) \o << Line("rule", "", 0, <<>>) >>

\* The two revisions of the `page get` action found in the sources.
Snapshots == {"page.ts", "part_007"}

\* ------------------------------------------------------------------------
\* page get: the command action
\* ------------------------------------------------------------------------

\* A variant whose catch block prints the error and lets the process live.
ConcludeLogOnly(ts, blocks) ==
  IF ts[pageId].st = "fulfilled"
  THEN /\ pc' = "exited"
       /\ exitCode' = 0
       /\ stdout' = stdout \o IF snapshot = "page.ts"
                               THEN RenderBlocks(blocks, raw)
                               ELSE RenderPageAndBlocks(pageId, blocks, raw)
       /\ stderr' = stderr
  ELSE IF ts[pageId].st = "rejected"
  THEN /\ pc' = pc
       /\ exitCode' = exitCode
       /\ stdout' = stdout
       /\ stderr' = Append(stderr, ErrorLine(ts[pageId].err))
  ELSE UNCHANGED << pc, exitCode, stdout, stderr >>

\* The end of the action once the outermost fetchBlocksRecursive settled:
\* the blocks are printed and the process ends, or the catch block prints
\* the error and calls process.exit(1).
Conclude(ts, blocks) ==
  IF ts[pageId].st = "fulfilled"
  THEN /\ pc' = "exited"
       /\ exitCode' = 0
       /\ stdout' = stdout \o IF snapshot = "page.ts"
                               THEN RenderBlocks(blocks, raw)
                               ELSE RenderPageAndBlocks(pageId, blocks, raw)
       /\ stderr' = stderr
  ELSE IF ts[pageId].st = "rejected"
  THEN /\ pc' = "exited"
       /\ exitCode' = 1
       /\ stdout' = stdout
       /\ stderr' = Append(stderr, ErrorLine(ts[pageId].err))
  ELSE UNCHANGED << pc, exitCode, stdout, stderr >>

\* `page get <page-id> [--raw]` is started: the page's metadata is requested;
\* page.ts prints the banner before that.
InvokePageGet(snap, id, rawOpt) ==
  /\ pc = "idle"
  /\ pc' = "retrieving"
  /\ cmd' = "page get"
  /\ snapshot' = snap
  /\ pageId' = id
  /\ raw' = rawOpt
  /\ stdout' = IF snap = "page.ts" THEN Append(stdout, Line("banner", "", 0, <<>>)) ELSE stdout
  /\ requests' = Append(requests, Request("pages.retrieve", id, Undefined, 0))
  /\ UNCHANGED << searchVars, authVars, tasks, allBlocks, listing, allPages, cursor,
                  failed, malformed, stderr, exitCode >>
  /\ UNCHANGED received

\* notion.pages.retrieve resolved: page.ts prints the metadata; the
\* outermost fetchBlocksRecursive(pageId) issues its first request.
PageRetrieveResolves ==
  /\ pc = "retrieving"
  /\ pc' = "traversing"
  /\ stdout' = IF snapshot = "page.ts"
               THEN Append(stdout, Line("metadata", pageId, 0, <<>>))
               ELSE stdout
  /\ tasks' = [tasks EXCEPT ![pageId] = Launched(0, "")]
  /\ requests' = Append(requests,
                        Request("blocks.retrieveChildren", pageId, Undefined, BLOCKS_PAGE_SIZE))
  /\ UNCHANGED << searchVars, authVars, cmd, snapshot, pageId, raw, allBlocks, listing,
                  allPages, cursor, failed, malformed,
                  stderr, exitCode >>
  /\ UNCHANGED received

\* notion.pages.retrieve was rejected: catch, console.error, process.exit(1).
PageRetrieveRejects(e) ==
  /\ pc = "retrieving"
  /\ pc' = "exited"
  /\ exitCode' = 1
  /\ stderr' = Append(stderr, ErrorLine(e))
  /\ failed' = Append(failed, [endpoint |-> "pages.retrieve", target |-> pageId,
                               start_cursor |-> Undefined, error |-> e, held |-> <<>>])
  /\ UNCHANGED << searchVars, authVars, cmd, snapshot, pageId, raw, tasks, allBlocks,
                  listing, allPages, cursor, requests,
                  malformed, stdout >>
  /\ UNCHANGED received

\* The continuation of activation t when its retrieveChildren request settles
\* with resp, run to the point where the event loop is idle again.
RetrieveChildrenSettles(t, resp) ==
  LET me   == tasks[t]
      step == FetchBlocksAtLevelStep(me.blocks, me.depth, resp)
  IN  CASE step.kind = "await" ->
             /\ tasks' = [tasks EXCEPT ![t].blocks = step.blocks, ![t].cursor = step.cursor]
             /\ requests' = Append(requests,
                  Request("blocks.retrieveChildren", t, step.cursor, BLOCKS_PAGE_SIZE))
             /\ UNCHANGED << allBlocks, pc, exitCode, stdout, stderr >>
        [] step.kind = "return" ->
             LET pushed == PushLevel(allBlocks, step.blocks)
                 kids   == Ids(BlocksToRecurse(step.blocks))
                 mine   == [me EXCEPT !.blocks = step.blocks, !.cursor = Undefined,
                                      !.kids = kids,
                                      !.st = IF Len(kids) > 0 THEN "joining" ELSE "fulfilled"]
                 ts1    == LaunchAll([tasks EXCEPT ![t] = mine], kids,
                                     RecursionDepth(me.depth), t)
                 ts2    == Settle(ts1, t)
             IN  /\ allBlocks' = pushed
                 /\ tasks' = ts2
                 /\ requests' = requests \o
                      [ i \in 1..Len(kids) |->
                          Request("blocks.retrieveChildren", kids[i], Undefined, BLOCKS_PAGE_SIZE) ]
                 /\ Conclude(ts2, pushed)
        [] step.kind = "throw" ->
             LET ts1 == [tasks EXCEPT ![t].st = "rejected", ![t].err = step.error]
                 ts2 == Settle(ts1, t)
             IN  /\ tasks' = ts2
                 /\ UNCHANGED << allBlocks, requests >>
                 /\ Conclude(ts2, allBlocks)

\* A retrieveChildren request in flight is answered.
RetrieveChildrenResolves ==
  \E t \in TaskIds :
    /\ pc = "traversing"
    /\ tasks[t].st = "fetching"
    /\ \E resp \in RemoteResponses(RemoteChildren[t], tasks[t].cursor, BLOCKS_PAGE_SIZE) :
         /\ RetrieveChildrenSettles(t, resp)
         /\ malformed' = (malformed \/ Malformed(resp))
         /\ received' = received \cup
              { Received("blocks.retrieveChildren", t, tasks[t].cursor, resp) }
    /\ UNCHANGED << searchVars, authVars, cmd, snapshot, pageId, raw, listing,
                    allPages, cursor, failed >>

\* A retrieveChildren request in flight is rejected.
RetrieveChildrenRejects ==
  \E t \in TaskIds, e \in Errors :
    /\ pc = "traversing"
    /\ tasks[t].st = "fetching"
    /\ RetrieveChildrenSettles(t, Rejection(e))
    /\ failed' = Append(failed, [endpoint |-> "blocks.retrieveChildren", target |-> t,
                                 start_cursor |-> tasks[t].cursor, error |-> e,
                                 held |-> Ids(tasks[t].blocks)])
    /\ UNCHANGED << searchVars, authVars, cmd, snapshot, pageId, raw, listing,
                    allPages, cursor, malformed >>
    /\ UNCHANGED received


\* ------------------------------------------------------------------------
\* The remote workspace: the objects the search index can return
\* ------------------------------------------------------------------------

\* parent.id is the value of the field that parent.type names (page_id,
\* database_id, data_source_id, block_id); a workspace parent carries none.
\* "H", "DB", "DS" and "BL" are objects the integration cannot see.
RemoteObject ==
  [ W1 |-> [object |-> "page",        parent |-> [type |-> "workspace",      id |-> ""]],
    W2 |-> [object |-> "page",        parent |-> [type |-> "workspace",      id |-> ""]],
    K1 |-> [object |-> "page",        parent |-> [type |-> "page_id",        id |-> "W1"]],
    K2 |-> [object |-> "page",        parent |-> [type |-> "page_id",        id |-> "H"]],
    K3 |-> [object |-> "page",        parent |-> [type |-> "page_id",        id |-> "W2"]],
    N1 |-> [object |-> "page",        parent |-> [type |-> "database_id",    id |-> "DB"]],
    N2 |-> [object |-> "page",        parent |-> [type |-> "data_source_id", id |-> "DS"]],
    N3 |-> [object |-> "page",        parent |-> [type |-> "block_id",       id |-> "BL"]],
    N4 |-> [object |-> "page",        parent |-> [type |-> "page_id",        id |-> ""]],
    S1 |-> [object |-> "data_source", parent |-> [type |-> "workspace",      id |-> ""]] ]

\* The order in which the search index returns what it holds.
IndexOrder == <<"K3", "W1", "K1", "N1", "S1", "W2", "K2", "N2", "N3", "N4">>

Reverse(s) == [ i \in 1..Len(s) |-> s[Len(s) + 1 - i] ]

Restrict(s, S) == SelectSeq(s, LAMBDA x : x \in S)

\* The listings a run may meet: any set of objects shared with the
\* integration, in index order or in the opposite order.
Listings ==
  { Restrict(IndexOrder, S) : S \in SUBSET Range(IndexOrder) } \cup
  { Restrict(Reverse(IndexOrder), S) : S \in SUBSET Range(IndexOrder) }

\* What the search endpoint matches for filter {property: "object", value: v}.
SearchMatches(all, v) == SelectSeq(all, LAMBDA x : RemoteObject[x].object = v)

\* ------------------------------------------------------------------------
\* integration pages
\* ------------------------------------------------------------------------

\* The inner for loop: results whose object is "page" are pushed.
PushPages(pages, results) ==
  pages \o SelectSeq(results, LAMBDA x : RemoteObject[x].object = "page")

\* A variant that gives up on a rejected request and goes on with what it has.
SearchLoopStepPartial(pages, resp) ==
  IF ~resp.ok
  THEN [kind |-> "done", pages |-> pages, cursor |-> Undefined, error |-> ""]
  ELSE LET pushed == PushPages(pages, resp.results)
           next   == NextCursor(resp)
       IN  IF Truthy(next)
           THEN [kind |-> "await", pages |-> pushed, cursor |-> next, error |-> ""]
           ELSE [kind |-> "done", pages |-> pushed, cursor |-> Undefined, error |-> ""]

\* One iteration of the do/while loop, resumed by the settled search request.
SearchLoopStep(pages, resp) ==
  IF ~resp.ok
  THEN [kind |-> "throw", pages |-> <<>>, cursor |-> Undefined, error |-> resp.error]
  ELSE LET pushed == PushPages(pages, resp.results)
           next   == NextCursor(resp)
       IN  IF Truthy(next)
           THEN [kind |-> "await", pages |-> pushed, cursor |-> next, error |-> ""]
           ELSE [kind |-> "done", pages |-> pushed, cursor |-> Undefined, error |-> ""]

\* A variant that builds the index from the first result page only.
VisibleIdsFirstPage(pages) == Range(SubSeq(pages, 1, Min(ServerPageCap, Len(pages))))

\* new Set(allPages.map((p) => p.id))
VisibleIds(pages) == Range(pages)

\* A variant that treats a missing container like a missing parent page.
IsRootAnyParent(page, visibleIds) ==
  LET parent == RemoteObject[page].parent
  IN  IF parent.type = "workspace" THEN TRUE
      ELSE IF parent.id # "" THEN parent.id \notin visibleIds
      ELSE FALSE

\* A variant that tests the parent against nothing but the page itself.
IsRootNoIndex(page, visibleIds) ==
  LET parent == RemoteObject[page].parent
  IN  IF parent.type = "workspace" THEN TRUE
      ELSE IF parent.type = "page_id" /\ parent.id # "" THEN parent.id # page
      ELSE FALSE

\* A variant that accepts a page_id reference with an empty ID and falls
\* through to the index for a block_id reference.
IsRootEmptyIdAllowed(page, visibleIds) ==
  LET parent == RemoteObject[page].parent
  IN  IF parent.type = "workspace" THEN TRUE
      ELSE IF parent.type \in {"page_id", "block_id"} THEN parent.id \notin visibleIds
      ELSE FALSE

\* The predicate of the rootPages filter.
IsRoot(page, visibleIds) ==
  LET parent == RemoteObject[page].parent
  IN  IF parent.type = "workspace" THEN TRUE
      ELSE IF parent.type = "page_id" /\ parent.id # "" THEN parent.id \notin visibleIds
      ELSE IF parent.type = "database_id" \/ parent.type = "data_source_id" THEN FALSE
      ELSE FALSE

RootPages(pages) ==
  LET visibleIds == VisibleIds(pages)
  IN  SelectSeq(pages, LAMBDA page : IsRoot(page, visibleIds))

\* What the action prints after the loop.
RenderRoots(pages) ==
  LET rootPages == RootPages(pages)
  IN  IF Len(rootPages) = 0
      THEN << Line("no_roots", "", 0, <<>>), Line("scanned", "", Len(pages), <<>>) >>
      ELSE << Line("found", "", Len(rootPages), <<>>) >>
           \o [ i \in 1..Len(rootPages) |-> Line("root", rootPages[i], 0, <<>>) ]

\* `integration pages` is started against a workspace whose index holds l:
\* the banner is printed and the first search request is issued.
InvokeIntegrationPages(l) ==
  /\ pc = "idle"
  /\ pc' = "searching"
  /\ cmd' = "integration pages"
  /\ listing' = l
  /\ stdout' = Append(stdout, Line("banner", "", 0, <<>>))
  /\ requests' = Append(requests, Request("search", "page", Undefined, SEARCH_PAGE_SIZE))
  /\ UNCHANGED << searchVars, authVars, snapshot, pageId, raw, tasks, allBlocks, allPages,
                  cursor, failed, malformed, stderr, exitCode >>
  /\ UNCHANGED received

\* The continuation of the action when its search request settles with resp.
SearchSettles(resp) ==
  LET step == SearchLoopStep(allPages, resp)
  IN  CASE step.kind = "await" ->
             /\ allPages' = step.pages
             /\ cursor' = step.cursor
             /\ requests' = Append(requests,
                                   Request("search", "page", step.cursor, SEARCH_PAGE_SIZE))
             /\ UNCHANGED << pc, exitCode, stdout, stderr >>
        [] step.kind = "done" ->
             /\ allPages' = step.pages
             /\ cursor' = step.cursor
             /\ pc' = "exited"
             /\ exitCode' = 0
             /\ stdout' = stdout \o RenderRoots(step.pages)
             /\ UNCHANGED << requests, stderr >>
        [] step.kind = "throw" ->
             /\ pc' = "exited"
             /\ exitCode' = 1
             /\ stderr' = Append(stderr, ErrorLine(step.error))
             /\ UNCHANGED << allPages, cursor, requests, stdout >>

\* The search request in flight is answered.
SearchResolves ==
  /\ pc = "searching"
  /\ \E resp \in RemoteResponses(SearchMatches(listing, "page"), cursor, SEARCH_PAGE_SIZE) :
       /\ SearchSettles(resp)
       /\ malformed' = (malformed \/ Malformed(resp))
       /\ received' = received \cup { Received("search", "page", cursor, resp) }
  /\ UNCHANGED << searchVars, authVars, cmd, snapshot, pageId, raw, tasks, allBlocks,
                  listing, failed >>

\* The search request in flight is rejected.
SearchRejects ==
  \E e \in Errors :
    /\ pc = "searching"
    /\ SearchSettles(Rejection(e))
    /\ failed' = Append(failed, [endpoint |-> "search", target |-> "page",
                                 start_cursor |-> cursor, error |-> e, held |-> allPages])
    /\ UNCHANGED << searchVars, authVars, cmd, snapshot, pageId, raw, tasks, allBlocks,
                    listing, malformed >>
    /\ UNCHANGED received

\* ------------------------------------------------------------------------
\* search: options
\* ------------------------------------------------------------------------

\* The default of --limit, the string "20", as its characters.
DEFAULT_LIMIT == <<"2", "0">>

\* The value that replaces a --limit that parses to NaN or 0.
DEFAULT_PAGE_SIZE == 20

\* The upper clamp of the page size.
MAX_PAGE_SIZE == 100

\* page_size sent with every request of `search --workspace`.
WORKSPACE_PAGE_SIZE == 100

Digits == <<"0", "1", "2", "3", "4", "5", "6", "7", "8", "9">>

IsDigit(c) == \E i \in 1..Len(Digits) : Digits[i] = c

DigitValue(c) == (CHOOSE i \in 1..Len(Digits) : Digits[i] = c) - 1

RECURSIVE SkipWhitespace(_)
SkipWhitespace(str) ==
  IF str # <<>> /\ Head(str) = " " THEN SkipWhitespace(Tail(str)) ELSE str

RECURSIVE LeadingDigits(_)
LeadingDigits(str) ==
  IF str # <<>> /\ IsDigit(Head(str))
  THEN << Head(str) >> \o LeadingDigits(Tail(str))
  ELSE <<>>

RECURSIVE DigitsValue(_, _)
DigitsValue(ds, acc) ==
  IF ds = <<>> THEN acc ELSE DigitsValue(Tail(ds), 10 * acc + DigitValue(Head(ds)))

\* parseInt(str, 10): leading blanks are skipped, a sign is accepted, the
\* longest run of digits is converted and the rest is ignored; NaN when
\* there is no digit.
ParseInt(str) ==
  LET s1   == SkipWhitespace(str)
      neg  == s1 # <<>> /\ Head(s1) = "-"
      s2   == IF s1 # <<>> /\ Head(s1) \in {"+", "-"} THEN Tail(s1) ELSE s1
      ds   == LeadingDigits(s2)
      v    == DigitsValue(ds, 0)
  IN  IF ds = <<>> THEN [nan |-> TRUE, value |-> 0]
      ELSE [nan |-> FALSE, value |-> IF neg THEN 0 - v ELSE v]

\* Math.min(parseInt(options.limit, 10) || 20, 100)
PageSize(limit) ==
  LET n == ParseInt(limit)
      x == IF n.nan \/ n.value = 0 THEN DEFAULT_PAGE_SIZE ELSE n.value
  IN  Min(x, MAX_PAGE_SIZE)

\* input.trim().toLowerCase() over the --filter values of the model.
TrimLowerCase(input) == IF input = " ALL" THEN "all" ELSE input

Invalid == "invalid"

\* normalizeFilterOption: "page" when absent, the canonical value when it is
\* one of the three, otherwise the command ends with an error.
NormalizeFilterOption(input) ==
  IF ~Truthy(input) THEN "page"
  ELSE LET v == TrimLowerCase(input)
       IN  IF v = "page" \/ v = "database" \/ v = "all" THEN v ELSE Invalid

\* The command lines of `search` the model runs.
Limits ==
  { DEFAULT_LIMIT, <<"1">>, <<"0">>, <<"-", "5">>, <<"2", "0", "0">>,
    <<"a", "b", "c">>, <<"5", "x">> }

SearchOptions ==
  [ workspace : BOOLEAN, cursor : {Undefined, EncodeCursor(1)}, limit : Limits,
    filter : {"page", "database", " ALL", "bogus"} ]

IdleOptions ==
  [ workspace |-> FALSE, cursor |-> Undefined, limit |-> DEFAULT_LIMIT, filter |-> "page" ]

\* The listings `search` is run against.
SearchObjects == {"W1", "K1", "N1", "S1", "W2"}

SearchListings == { l \in Listings : Range(l) \subseteq SearchObjects }

\* What the search endpoint holds for the request's filter; no filter is
\* sent for "all".
SearchItems(all, filterOption) ==
  IF filterOption = "all" THEN all ELSE SearchMatches(all, filterOption)

\* The endpoint accepts a page_size of 1 to 100 and rejects any other as a
\* malformed request parameter.
ValidPageSize(page_size) == page_size \in 1..MAX_PAGE_SIZE

\* ------------------------------------------------------------------------
\* search --workspace
\* ------------------------------------------------------------------------

\* A variant of the inner loop that keeps every page of the response.
PushWorkspacePagesAnyParent(pages, results) ==
  pages \o SelectSeq(results, LAMBDA x : RemoteObject[x].object = "page")

\* The inner for loop: pages whose parent is the workspace are pushed.
PushWorkspacePages(pages, results) ==
  pages \o SelectSeq(results, LAMBDA x :
             RemoteObject[x].object = "page" /\ RemoteObject[x].parent.type = "workspace")

\* One iteration of the do/while loop of the workspace mode.
WorkspaceLoopStep(pages, scanned, resp) ==
  IF ~resp.ok
  THEN [kind |-> "throw", pages |-> <<>>, scanned |-> scanned, cursor |-> Undefined,
        error |-> resp.error]
  ELSE LET pushed == PushWorkspacePages(pages, resp.results)
           total  == scanned + Len(resp.results)
           next   == NextCursor(resp)
       IN  IF Truthy(next)
           THEN [kind |-> "await", pages |-> pushed, scanned |-> total, cursor |-> next,
                 error |-> ""]
           ELSE [kind |-> "done", pages |-> pushed, scanned |-> total, cursor |-> Undefined,
                 error |-> ""]

\* What the workspace mode prints after the loop.
RenderWorkspacePages(pages, scanned) ==
  IF Len(pages) = 0
  THEN << Line("no_workspace_pages", "", 0, <<>>), Line("scanned", "", scanned, <<>>) >>
  ELSE << Line("found_workspace_pages", "", Len(pages), <<>>) >>
       \o [ i \in 1..Len(pages) |-> Line("workspace_page", pages[i], 0, <<>>) ]

\* What the normal mode prints for the one response it requests.
RenderResults(resp) ==
  IF Len(resp.results) = 0 THEN << Line("none_found", "", 0, <<>>) >>
  ELSE << Line("found_results", "", Len(resp.results), <<>>) >>
       \o [ i \in 1..Len(resp.results) |-> Line("result", resp.results[i], 0, <<>>) ]
       \o IF resp.has_more /\ Truthy(resp.next_cursor)
          THEN << Line("more_results", resp.next_cursor, 0, <<>>) >>
          ELSE <<>>

\* ------------------------------------------------------------------------
\* search: the command action
\* ------------------------------------------------------------------------

\* The command ends with the error lines ls on stderr: process.exit(1).
ExitWith(ls) ==
  /\ pc' = "exited"
  /\ exitCode' = 1
  /\ stderr' = stderr \o ls
  /\ UNCHANGED << stdout, requests >>

\* The banner is printed and a search request is issued.
IssueSearch(mode, filterOption, start_cursor, page_size) ==
  /\ pc' = mode
  /\ stdout' = Append(stdout, Line("banner", "", 0, <<>>))
  /\ requests' = Append(requests, Request("search",
                    IF filterOption = "all" THEN Undefined ELSE filterOption,
                    start_cursor, page_size))
  /\ UNCHANGED << exitCode, stderr >>

\* `search [--workspace] [--cursor c] [--limit n] [--filter f]` is started
\* against a workspace whose index holds l.
InvokeSearch(l, o) ==
  /\ pc = "idle"
  /\ cmd' = "search"
  /\ listing' = l
  /\ options' = o
  /\ LET filterOption == NormalizeFilterOption(o.filter)
     IN  IF filterOption = Invalid
         THEN ExitWith(<< Line("error", "invalid_filter", 0, <<>>) >>)
         ELSE IF o.workspace
         THEN IF filterOption # "page"
              THEN ExitWith(<< Line("error", "filter_with_workspace", 0, <<>>) >>)
              ELSE IF Truthy(o.cursor) \/ o.limit # DEFAULT_LIMIT
              THEN ExitWith(<< Line("error", "cursor_limit_with_workspace", 0, <<>>),
                               Line("error", "pagination_is_internal", 0, <<>>) >>)
              ELSE IssueSearch("workspace_search", "page", Undefined, WORKSPACE_PAGE_SIZE)
         ELSE IssueSearch("normal_search", filterOption, o.cursor, PageSize(o.limit))
  /\ UNCHANGED << pageGetVars, authVars, allPages, cursor, workspacePages, totalScanned,
                  failed, malformed >>
  /\ UNCHANGED received

\* The continuation of the workspace mode when its request settles.
WorkspaceSearchSettles(resp) ==
  LET step == WorkspaceLoopStep(workspacePages, totalScanned, resp)
  IN  CASE step.kind = "await" ->
             /\ workspacePages' = step.pages
             /\ totalScanned' = step.scanned
             /\ cursor' = step.cursor
             /\ requests' = Append(requests,
                                   Request("search", "page", step.cursor, WORKSPACE_PAGE_SIZE))
             /\ UNCHANGED << pc, exitCode, stdout, stderr >>
        [] step.kind = "done" ->
             /\ workspacePages' = step.pages
             /\ totalScanned' = step.scanned
             /\ cursor' = step.cursor
             /\ pc' = "exited"
             /\ exitCode' = 0
             /\ stdout' = stdout \o RenderWorkspacePages(step.pages, step.scanned)
             /\ UNCHANGED << requests, stderr >>
        [] step.kind = "throw" ->
             /\ pc' = "exited"
             /\ exitCode' = 1
             /\ stderr' = Append(stderr, ErrorLine(step.error))
             /\ UNCHANGED << workspacePages, totalScanned, cursor, requests, stdout >>

\* The request of the workspace mode is answered.
WorkspaceSearchResolves ==
  /\ pc = "workspace_search"
  /\ \E resp \in RemoteResponses(SearchItems(listing, "page"), cursor, WORKSPACE_PAGE_SIZE) :
       /\ WorkspaceSearchSettles(resp)
       /\ malformed' = (malformed \/ Malformed(resp))
       /\ received' = received \cup { Received("search", "page", cursor, resp) }
  /\ UNCHANGED << pageGetVars, authVars, cmd, listing, allPages, options, failed >>

\* The request of the workspace mode is rejected.
WorkspaceSearchRejects ==
  \E e \in Errors :
    /\ pc = "workspace_search"
    /\ WorkspaceSearchSettles(Rejection(e))
    /\ failed' = Append(failed, [endpoint |-> "search", target |-> "page",
                                 start_cursor |-> cursor, error |-> e,
                                 held |-> workspacePages])
    /\ UNCHANGED << pageGetVars, authVars, cmd, listing, allPages, options, malformed >>
    /\ UNCHANGED received

\* The one request of the normal mode is answered: the results are printed.
NormalSearchResolves ==
  /\ pc = "normal_search"
  /\ ValidPageSize(requests[Len(requests)].page_size)
  /\ \E resp \in RemoteResponses(SearchItems(listing, NormalizeFilterOption(options.filter)),
                                  options.cursor, requests[Len(requests)].page_size) :
       /\ stdout' = stdout \o RenderResults(resp)
       /\ malformed' = (malformed \/ Malformed(resp))
       /\ received' = received \cup
            { Received("search", requests[Len(requests)].target, options.cursor, resp) }
  /\ pc' = "exited"
  /\ exitCode' = 0
  /\ UNCHANGED << pageGetVars, authVars, searchVars, cmd, listing, allPages, cursor,
                  requests, failed, stderr >>

\* The one request of the normal mode is rejected; a page_size the endpoint
\* does not accept is never answered with results.
NormalSearchRejects ==
  \E e \in Errors \cup {"validation_error"} :
    /\ pc = "normal_search"
    /\ e = "validation_error" => ~ValidPageSize(requests[Len(requests)].page_size)
    /\ pc' = "exited"
    /\ exitCode' = 1
    /\ stderr' = Append(stderr, ErrorLine(e))
    /\ failed' = Append(failed, [endpoint |-> "search",
                                 target |-> requests[Len(requests)].target,
                                 start_cursor |-> options.cursor, error |-> e,
                                 held |-> <<>>])
    /\ UNCHANGED << pageGetVars, authVars, searchVars, cmd, listing, allPages, cursor,
                    requests, malformed, stdout >>
    /\ UNCHANGED received

\* ------------------------------------------------------------------------
\* auth-internal: the config file
\* ------------------------------------------------------------------------

\* Largest number of auth commands run one after the other.
MaxCommands == 3

ConfigKeys ==
  {"NOTION_TOKEN", "auth_method", "oauth_bot_id", "oauth_workspace_name",
   "oauth_workspace_id", "NOTION_OAUTH_CLIENT_ID", "NOTION_OAUTH_CLIENT_SECRET"}

\* An object without any key: a key that is not set reads as undefined.
EmptyConfig == [ k \in ConfigKeys |-> Undefined ]

MissingFile == [ kind |-> "missing", content |-> EmptyConfig ]

CorruptFile == [ kind |-> "corrupt", content |-> EmptyConfig ]

\* readConfig: the parsed file, or {} when it cannot be read or parsed.
ReadConfig(file) == IF file.kind = "json" THEN file.content ELSE EmptyConfig

\* writeConfig: the file is replaced by the serialised object.
WriteConfig(cfg) == [ kind |-> "json", content |-> cfg ]

Tokens == {"secret_a", "secret_b"}

\* What auth-public login leaves in the file.
OAuthConfig ==
  [ EmptyConfig EXCEPT !["NOTION_TOKEN"] = "oauth_token", !["auth_method"] = "oauth",
                       !["oauth_bot_id"] = "bot", !["oauth_workspace_name"] = "ws_name",
                       !["oauth_workspace_id"] = "ws_id" ]

\* What auth-public setup adds to the object read.
ConfigWithClient(cfg) ==
  [ cfg EXCEPT !["NOTION_OAUTH_CLIENT_ID"] = "client_id",
               !["NOTION_OAUTH_CLIENT_SECRET"] = "client_secret" ]

\* The files an auth command may find.
StoredFiles ==
  { MissingFile, CorruptFile, WriteConfig(EmptyConfig), WriteConfig(OAuthConfig),
    WriteConfig(ConfigWithClient(EmptyConfig)),
    WriteConfig([ EmptyConfig EXCEPT !["NOTION_TOKEN"] = "secret_b",
                                     !["auth_method"] = "internal" ]) }

\* ------------------------------------------------------------------------
\* auth-internal set, auth-internal clear
\* ------------------------------------------------------------------------

\* The assignments and deletes of `set` on the object read.
ConfigWithToken(cfg, token) ==
  [ cfg EXCEPT !["NOTION_TOKEN"] = token, !["auth_method"] = "internal",
               !["oauth_bot_id"] = Undefined, !["oauth_workspace_name"] = Undefined,
               !["oauth_workspace_id"] = Undefined ]

\* A variant of `clear` that deletes the token and keeps auth_method.
ConfigWithoutTokenOnly(cfg) == [ cfg EXCEPT !["NOTION_TOKEN"] = Undefined ]

\* The deletes of `clear` on the object read.
ConfigWithoutToken(cfg) ==
  [ cfg EXCEPT !["NOTION_TOKEN"] = Undefined, !["auth_method"] = Undefined ]

\* One process has run to its end: what it was, found, left and printed.
Ran(name, arg, before, after, out, err, status) ==
  /\ pc' = "exited"
  /\ cmd' = name
  /\ config' = after
  /\ stdout' = out
  /\ stderr' = err
  /\ exitCode' = status
  /\ history' = Append(history, [ cmd |-> name, arg |-> arg, before |-> before,
                                  after |-> after, stdout |-> out, exitCode |-> status ])
  /\ UNCHANGED << pageGetVars, searchVars, listing, allPages, cursor, requests, failed,
                  malformed, env >>
  /\ UNCHANGED received

\* `auth-internal set [token]`: without an argument the token is what the
\* user types at the prompt; an empty token ends the command with an error.
AuthInternalSet(arg, typed) ==
  /\ pc \in {"idle", "exited"}
  /\ Len(history) < MaxCommands
  /\ LET token == IF ~Truthy(arg) THEN typed ELSE arg
     IN  IF ~Truthy(token)
         THEN Ran("auth-internal set", arg, config, config, <<>>,
                  << Line("error", "no_token_provided", 0, <<>>) >>, 1)
         ELSE Ran("auth-internal set", arg, config,
                  WriteConfig(ConfigWithToken(ReadConfig(config), token)),
                  << Line("token_saved", "", 0, <<>>) >>, <<>>, 0)

\* `auth-internal clear`: nothing is written when no token is stored.
AuthInternalClear ==
  /\ pc \in {"idle", "exited"}
  /\ Len(history) < MaxCommands
  /\ LET cfg == ReadConfig(config)
     IN  IF ~Truthy(cfg["NOTION_TOKEN"])
         THEN Ran("auth-internal clear", Undefined, config, config,
                  << Line("no_stored_token", "", 0, <<>>) >>, <<>>, 0)
         ELSE Ran("auth-internal clear", Undefined, config,
                  WriteConfig(ConfigWithoutToken(cfg)),
                  << Line("token_removed", "", 0, <<>>) >>
                    \o IF Truthy(env) THEN << Line("env_still_set", "", 0, <<>>) >> ELSE <<>>,
                  <<>>, 0)

\* ------------------------------------------------------------------------
\* auth-public login, auth-public logout
\* ------------------------------------------------------------------------

\* The outcomes of the browser flow of login: the callback fails, the
\* exchange of the code is rejected, or a token is granted.
LoginFlows == {"callback_failed", "exchange_failed", "authorized"}

\* The assignments of login on the object read: the token and the metadata
\* of the token response.
ConfigWithOAuth(cfg) ==
  [ cfg EXCEPT !["NOTION_TOKEN"] = "oauth_token", !["auth_method"] = "oauth",
               !["oauth_bot_id"] = "bot", !["oauth_workspace_name"] = "ws_name",
               !["oauth_workspace_id"] = "ws_id" ]

\* The deletes of logout when an OAuth token is stored.
ConfigWithoutOAuth(cfg) ==
  [ cfg EXCEPT !["NOTION_TOKEN"] = Undefined, !["auth_method"] = Undefined,
               !["oauth_bot_id"] = Undefined, !["oauth_workspace_name"] = Undefined,
               !["oauth_workspace_id"] = Undefined ]

\* The deletes of logout --all.
ConfigWithoutClient(cfg) ==
  [ cfg EXCEPT !["NOTION_OAUTH_CLIENT_ID"] = Undefined,
               !["NOTION_OAUTH_CLIENT_SECRET"] = Undefined ]

HasClient(cfg) ==
  Truthy(cfg["NOTION_OAUTH_CLIENT_ID"]) \/ Truthy(cfg["NOTION_OAUTH_CLIENT_SECRET"])

\* `auth-public login`: creds tells whether getOAuthCredentials() found
\* client credentials, flow is the outcome of the browser flow. The file is
\* written only when the code was exchanged for a token.
AuthPublicLogin(creds, browser, flow) ==
  /\ pc \in {"idle", "exited"}
  /\ Len(history) < MaxCommands
  /\ LET waiting == << Line("starting_server", "", 0, <<>>),
                      Line(IF browser THEN "opening_browser" ELSE "open_this_url", "", 0, <<>>),
                      Line("waiting", "", 0, <<>>) >>
         received_code == Append(waiting, Line("code_received", "", 0, <<>>))
     IN  IF ~creds
         THEN Ran("auth-public login", Undefined, config, config, <<>>,
                  << Line("error", "no_client_credentials", 0, <<>>) >>, 1)
         ELSE IF flow = "callback_failed"
         THEN Ran("auth-public login", Undefined, config, config, waiting,
                  << Line("error", "callback", 0, <<>>) >>, 1)
         ELSE IF flow = "exchange_failed"
         THEN Ran("auth-public login", Undefined, config, config, received_code,
                  << Line("error", "exchanging_code", 0, <<>>) >>, 1)
         ELSE Ran("auth-public login", Undefined, config,
                  WriteConfig(ConfigWithOAuth(ReadConfig(config))),
                  Append(received_code, Line("authenticated", "", 0, <<>>)), <<>>, 0)

\* `auth-public logout [--all]`: creds tells whether getOAuthCredentials()
\* found client credentials, revoked whether the revoke request resolved.
\* Nothing is written when nothing was removed.
AuthPublicLogout(all, creds, revoked) ==
  /\ pc \in {"idle", "exited"}
  /\ Len(history) < MaxCommands
  /\ LET cfg      == ReadConfig(config)
         isOAuth  == cfg["auth_method"] = "oauth" /\ Truthy(cfg["NOTION_TOKEN"])
         revoking == IF isOAuth /\ creds
                     THEN << Line(IF revoked THEN "token_revoked" ELSE "revoke_warning",
                                  "", 0, <<>>) >>
                     ELSE <<>>
         noToken  == IF isOAuth THEN ConfigWithoutOAuth(cfg) ELSE cfg
         dropAll  == all /\ HasClient(noToken)
         after    == IF dropAll THEN ConfigWithoutClient(noToken) ELSE noToken
         removed  == isOAuth \/ dropAll
     IN  IF ~removed
         THEN Ran("auth-public logout", IF all THEN "--all" ELSE Undefined, config, config,
                  << Line("nothing_to_remove", "", 0, <<>>) >>, <<>>, 0)
         ELSE Ran("auth-public logout", IF all THEN "--all" ELSE Undefined, config,
                  WriteConfig(after),
                  revoking \o << Line("credentials_removed", "", 0, <<>>) >>
                    \o IF ~all /\ HasClient(after)
                       THEN << Line("client_retained", "", 0, <<>>) >> ELSE <<>>,
                  <<>>, 0)

\* ------------------------------------------------------------------------
\* Specification
\* ------------------------------------------------------------------------

\* The state of a process that has not started its command.
Fresh ==
  /\ pc = "idle"
  /\ cmd = ""
  /\ snapshot = ""
  /\ pageId = ""
  /\ raw = FALSE
  /\ tasks = [ t \in TaskIds |-> IdleTask ]
  /\ allBlocks = <<>>
  /\ listing = <<>>
  /\ allPages = <<>>
  /\ cursor = Undefined
  /\ options = IdleOptions
  /\ workspacePages = <<>>
  /\ totalScanned = 0
  /\ history = <<>>
  /\ received = {}
  /\ requests = <<>>
  /\ failed = <<>>
  /\ malformed = FALSE
  /\ stdout = <<>>
  /\ stderr = <<>>
  /\ exitCode = 0

Init ==
  /\ Fresh
  /\ config = MissingFile
  /\ env = Undefined

Next ==
  \/ \E snap \in Snapshots, id \in PageIds, rawOpt \in BOOLEAN : InvokePageGet(snap, id, rawOpt)
  \/ PageRetrieveResolves
  \/ \E e \in Errors : PageRetrieveRejects(e)
  \/ RetrieveChildrenResolves
  \/ RetrieveChildrenRejects
  \/ pc = "idle" /\ \E l \in Listings : InvokeIntegrationPages(l)
  \/ SearchResolves
  \/ SearchRejects
  \/ pc = "idle" /\ \E l \in SearchListings, o \in SearchOptions : InvokeSearch(l, o)
  \/ WorkspaceSearchResolves
  \/ WorkspaceSearchRejects
  \/ NormalSearchResolves
  \/ NormalSearchRejects

Spec == Init /\ [][Next]_vars

\* The auth-internal commands, run one after the other against the config
\* file that the previous command left.
AuthInit ==
  /\ Fresh
  /\ config \in StoredFiles
  /\ env \in {Undefined, "secret_env"}

AuthNext ==
  \/ \E arg \in {Undefined} \cup Tokens, typed \in {EmptyString, "secret_a"} :
       AuthInternalSet(arg, typed)
  \/ AuthInternalClear
  \/ \E creds \in BOOLEAN, browser \in BOOLEAN, flow \in LoginFlows :
       AuthPublicLogin(creds, browser, flow)
  \/ \E all \in BOOLEAN, creds \in BOOLEAN, revoked \in BOOLEAN :
       AuthPublicLogout(all, creds, revoked)

AuthSpec == AuthInit /\ [][AuthNext]_vars


\* ------------------------------------------------------------------------
\* Vocabulary of the properties
\* ------------------------------------------------------------------------

PageGetSucceeded == cmd = "page get" /\ pc = "exited" /\ exitCode = 0

IntegrationPagesSucceeded == cmd = "integration pages" /\ pc = "exited" /\ exitCode = 0

Pos(s, x) == CHOOSE i \in 1..Len(s) : s[i] = x

RECURSIVE RemoteAncestors(_)
RemoteAncestors(b) ==
  IF b = PageId THEN {}
  ELSE {RemoteParent(b)} \cup RemoteAncestors(RemoteParent(b))

\* The sibling that follows b in its parent's child list, "" when b is last.
NextSibling(b) ==
  LET sibs == RemoteChildren[RemoteParent(b)]
      i    == Pos(sibs, b)
  IN  IF i < Len(sibs) THEN sibs[i + 1] ELSE ""

RECURSIVE Flatten(_)
Flatten(ss) == IF ss = <<>> THEN <<>> ELSE Head(ss) \o Flatten(Tail(ss))

\* The result of a run in which the subtrees of the blocks of one level
\* complete one after the other, in the order of the blocks.
RECURSIVE SerialOrder(_)
SerialOrder(id) ==
  LET kids == RemoteChildren[id]
      rec  == SelectSeq(kids, LAMBDA k : RemoteBlock[k].has_children
                  /\ RemoteBlock[k].type \notin {"child_page", "child_database"})
  IN  kids \o Flatten([ i \in 1..Len(rec) |-> SerialOrder(rec[i]) ])

IsBoundary(b) == RemoteBlock[b].type \in {"child_page", "child_database"}

\* The IDs of the blocks that stdout shows, formatted or as JSON.
BlocksOnStdout ==
  (UNION { {stdout[i].id} \cap BlockIds : i \in 1..Len(stdout) }) \cup
  (UNION { Range(Ids(stdout[i].blocks)) : i \in 1..Len(stdout) })

\* The pages that stdout reports as roots.
RootsOnStdout == { stdout[i].id : i \in { j \in 1..Len(stdout) : stdout[j].kind = "root" } }

ChildrenRequests(t) ==
  { i \in 1..Len(requests) :
      requests[i].endpoint = "blocks.retrieveChildren" /\ requests[i].target = t }

CeilDiv(n, k) == (n + k - 1) \div k

\* The number of requests that exhaust n items (one even when n = 0).
PagesNeeded(n, page_size) ==
  LET k == Min(page_size, ServerPageCap)
  IN  IF n = 0 THEN 1 ELSE CeilDiv(n, k)

\* ------------------------------------------------------------------------
\* C1
\* ------------------------------------------------------------------------

\* C1: for the fixed block tree and well-formed responses, every successful
\* run of `page get` ends with the same order of blocks in allBlocks,
\* whatever the order in which the concurrent requests were answered; the
\* order of the run that answers sibling subtrees one after the other is
\* the reference.
C1_OrderIsTheSameInEveryRun ==
  (PageGetSucceeded /\ ~malformed) => Ids(allBlocks) = SerialOrder(pageId)

\* The reference order itself is the result of a run.
C1_ReferenceRunExists ==
  PageGetSucceeded /\ ~malformed /\ Ids(allBlocks) = SerialOrder(pageId)

\* ------------------------------------------------------------------------
\* C2
\* ------------------------------------------------------------------------

\* C2: in the result of a successful `page get` over well-formed responses,
\* every descendant of a block a stands after a and before the next sibling
\* of a.
C2_PreOrder ==
  (PageGetSucceeded /\ ~malformed) =>
    \A i, j \in 1..Len(allBlocks) :
      LET a == allBlocks[i].id
          d == allBlocks[j].id
      IN  a \in RemoteAncestors(d) =>
            /\ i < j
            /\ \A k \in 1..Len(allBlocks) : allBlocks[k].id = NextSibling(a) => j < k

\* ------------------------------------------------------------------------
\* C3
\* ------------------------------------------------------------------------

\* C3: when every response was well-formed, a cursor loop that has returned
\* holds exactly the items of the resource, each once and in the remote
\* order, and has issued one request per page: the level fetch of every
\* block whose activation got past fetchBlocksAtLevel, and the search loop
\* of a successful `integration pages`.
C3_CursorLoopExhausts ==
  ~malformed =>
    /\ \A t \in TaskIds :
         tasks[t].st \in {"joining", "fulfilled"} =>
           /\ Ids(tasks[t].blocks) = RemoteChildren[t]
           /\ Cardinality(ChildrenRequests(t))
                = PagesNeeded(Len(RemoteChildren[t]), BLOCKS_PAGE_SIZE)
    /\ IntegrationPagesSucceeded =>
         /\ allPages = SearchMatches(listing, "page")
         /\ Len(requests)
              = PagesNeeded(Len(SearchMatches(listing, "page")), SEARCH_PAGE_SIZE)

\* The page's five children were collected over more than one request.
C3_Witness ==
  /\ ~malformed
  /\ tasks[PageId].st = "joining"
  /\ Len(tasks[PageId].blocks) = 5
  /\ Cardinality(ChildrenRequests(PageId)) > 1

\* ------------------------------------------------------------------------
\* C4
\* ------------------------------------------------------------------------

\* C4: for a child_page or child_database block no retrieveChildren request
\* is ever issued and no activation is started, and none of its children is
\* in allBlocks or on stdout, at any depth and although has_children is set.
C4_BoundaryNeverExpanded ==
  \A b \in BlockIds :
    IsBoundary(b) =>
      /\ ChildrenRequests(b) = {}
      /\ tasks[b].st = "idle"
      /\ \A c \in Range(RemoteChildren[b]) :
           c \notin Range(Ids(allBlocks)) /\ c \notin BlocksOnStdout

\* A finished traversal that met a child page at the top level and a child
\* database one level down, both with has_children set and children stored.
C4_Witness ==
  /\ PageGetSucceeded
  /\ {"B", "A2"} \subseteq Range(Ids(allBlocks))
  /\ RemoteBlock["B"].has_children /\ RemoteBlock["A2"].has_children
  /\ RemoteChildren["B"] # <<>> /\ RemoteChildren["A2"] # <<>>

\* ------------------------------------------------------------------------
\* C5
\* ------------------------------------------------------------------------

\* C5: once a retrieveChildren request of `page get` was rejected, the
\* command has ended with exit status 1 and that error on stderr, and no
\* block is on stdout, neither formatted nor as JSON.
C5_FailFastNoPartialTree ==
  (\E i \in 1..Len(failed) : failed[i].endpoint = "blocks.retrieveChildren") =>
    /\ pc = "exited"
    /\ exitCode = 1
    /\ stderr = << ErrorLine(failed[1].error) >>
    /\ BlocksOnStdout = {}

\* A request of one subtree was rejected while a sibling subtree was still
\* being fetched and blocks had already been collected.
C5_Witness ==
  /\ Len(failed) > 0
  /\ failed[1].endpoint = "blocks.retrieveChildren"
  /\ failed[1].target \in Range(RemoteChildren[PageId])
  /\ \E t \in TaskIds : t # failed[1].target /\ tasks[t].st = "fetching"
  /\ Len(allBlocks) > 0

\* ------------------------------------------------------------------------
\* C6
\* ------------------------------------------------------------------------

C7_ContainerChildNeverRoot ==
  \A p \in RootsOnStdout :
    RemoteObject[p].parent.type \notin {"database_id", "data_source_id"}

\* A run that listed pages of an invisible database and of an invisible data
\* source and reported other pages as roots.
C7_Witness ==
  /\ IntegrationPagesSucceeded
  /\ {"N1", "N2"} \subseteq Range(allPages)
  /\ RemoteObject["N1"].parent.id \notin Range(listing)
  /\ RemoteObject["N2"].parent.id \notin Range(listing)
  /\ RootsOnStdout # {}

\* ------------------------------------------------------------------------
\* C8
\* ------------------------------------------------------------------------

\* C8: in every state of every interleaving, a block of allBlocks whose
\* parent block is in allBlocks too carries the parent's depth plus one.
C8_DepthIsParentPlusOne ==
  \A i, j \in 1..Len(allBlocks) :
    allBlocks[i].id = RemoteParent(allBlocks[j].id) =>
      allBlocks[j].depth = allBlocks[i].depth + 1

\* Blocks of three levels are in the result while a sibling subtree is
\* still being fetched.
C8_Witness ==
  /\ {"A", "A1", "A1a"} \subseteq Range(Ids(allBlocks))
  /\ \E t \in TaskIds : tasks[t].st = "fetching"

\* ------------------------------------------------------------------------
\* C9
\* ------------------------------------------------------------------------

\* C9: when a request of a cursor loop was rejected, the command has ended
\* with exit status 1 and that error on stderr, and the items the loop held
\* from its earlier pages are neither in allBlocks nor on stdout; for the
\* search loop nothing but the banner is on stdout.
C9_FailedLoopReturnsNothing ==
  \A i \in 1..Len(failed) :
    failed[i].endpoint \in {"blocks.retrieveChildren", "search"} =>
      /\ pc = "exited"
      /\ exitCode = 1
      /\ stderr = << ErrorLine(failed[i].error) >>
      /\ \A x \in Range(failed[i].held) :
           x \notin Range(Ids(allBlocks)) /\ x \notin BlocksOnStdout
      /\ failed[i].endpoint = "search" => RootsOnStdout = {} /\ Len(stdout) = 1

\* The second or a later request of a level fetch was rejected.
C9_Witness ==
  /\ Len(failed) > 0
  /\ failed[1].endpoint = "blocks.retrieveChildren"
  /\ Len(failed[1].held) > 0
  /\ Truthy(failed[1].start_cursor)

\* ------------------------------------------------------------------------
\* C10
\* ------------------------------------------------------------------------

\* C10: once a search request of `integration pages` was rejected, the
\* command has ended with exit status 1 and an error on stderr, and stdout
\* holds no root page and no summary line.
C10_NoPartialRootSet ==
  (cmd = "integration pages" /\ Len(failed) > 0) =>
    /\ pc = "exited"
    /\ exitCode = 1
    /\ Len(stderr) = 1 /\ stderr[1].kind = "error"
    /\ \A i \in 1..Len(stdout) :
         stdout[i].kind \notin {"root", "found", "no_roots", "scanned"}

\* A later search request was rejected when the pages collected so far
\* already contained roots.
C10_Witness ==
  /\ cmd = "integration pages"
  /\ Len(failed) > 0
  /\ Len(RootPages(failed[1].held)) > 0

\* ------------------------------------------------------------------------
\* C11
\* ------------------------------------------------------------------------

\* C11: once a request of `page get`, `integration pages` or `search` was rejected,
\* the command has ended with a non-zero exit status and stderr holds
\* exactly one line, the error message; no second rejection is ever handled,
\* however many subtree fetches were in flight.
C11_OneErrorOneExit ==
  (cmd \in {"page get", "integration pages", "search"} /\ Len(failed) > 0) =>
    /\ pc = "exited"
    /\ exitCode # 0
    /\ Len(stderr) = 1
    /\ stderr[1] = ErrorLine(failed[1].error)
    /\ Len(failed) = 1

\* A subtree fetch was rejected while two or more other subtree fetches
\* were in flight, each of which could have been rejected as well.
C11_Witness ==
  /\ cmd = "page get"
  /\ Len(failed) = 1
  /\ failed[1].endpoint = "blocks.retrieveChildren"
  /\ Cardinality({ t \in TaskIds : t # failed[1].target /\ tasks[t].st = "fetching" }) >= 2

\* ------------------------------------------------------------------------
\* C17
\* ------------------------------------------------------------------------

\* C17: the blocks a subtree fetch collected reach the result only after
\* every sibling subtree fetch has resolved: while an activation started by
\* the same caller is still fetching, no child of a block is in the array
\* that holds the result.
C17_MergedOnlyAfterSiblingsResolved ==
  ~malformed =>
    \A p, q \in BlockIds :
      ( /\ p # q
        /\ tasks[p].st # "idle"
        /\ tasks[q].st = "fetching"
        /\ tasks[p].caller = tasks[q].caller ) =>
          \A c \in Range(RemoteChildren[p]) : c \notin Range(Ids(allBlocks))

\* ------------------------------------------------------------------------
\* C18
\* ------------------------------------------------------------------------

\* C18: in the step that handles a rejected request, and in every step
\* after it, no request is issued and no block is appended to allBlocks.
C18_NothingAfterFirstFailure ==
  [][ Len(failed') > 0 => (requests' = requests /\ allBlocks' = allBlocks) ]_vars

\* A subtree fetch was rejected while a sibling subtree fetch was between
\* two pages of its level, with a further request outstanding.
C18_Witness ==
  /\ cmd = "page get"
  /\ Len(failed) > 0
  /\ failed[1].endpoint = "blocks.retrieveChildren"
  /\ \E t \in BlockIds :
       /\ t # failed[1].target
       /\ tasks[t].caller = tasks[failed[1].target].caller
       /\ tasks[t].st = "fetching"
       /\ Truthy(tasks[t].cursor)

\* ------------------------------------------------------------------------
\* C19
\* ------------------------------------------------------------------------

\* The first requests of the level fetch of block b.
FirstRequests(b) == { i \in ChildrenRequests(b) : requests[i].start_cursor = Undefined }

\* C19: a block that a level fetch returned has an activation of
\* fetchBlocksRecursive if and only if has_children is set and its type is
\* neither child_page nor child_database, and its level fetch was started
\* exactly once; a block that was not returned has none.
C19_FetchStartedIffRecursable ==
  \A b \in BlockIds :
    LET recursable == /\ RemoteBlock[b].has_children
                      /\ RemoteBlock[b].type \notin {"child_page", "child_database"}
        returned   == b \in Range(Ids(allBlocks))
    IN  /\ tasks[b].st # "idle" <=> (returned /\ recursable)
        /\ Cardinality(FirstRequests(b)) = IF returned /\ recursable THEN 1 ELSE 0

\* The top level was returned: A, C and E have their fetch, the child page
\* B and the childless paragraph D have none.
C19_Witness ==
  /\ Range(RemoteChildren[PageId]) \subseteq Range(Ids(allBlocks))
  /\ \A b \in {"A", "C", "E"} : Cardinality(FirstRequests(b)) = 1
  /\ \A b \in {"B", "D"} : tasks[b].st = "idle"

\* ------------------------------------------------------------------------
\* C20
\* ------------------------------------------------------------------------

\* C20: when `page get` has printed its result, no activation is fetching
\* or waiting for its children, every block an activation collected is in
\* allBlocks, and with well-formed responses all children of every
\* recursable block of allBlocks are in allBlocks.
C20_OutputAfterAllSubtrees ==
  PageGetSucceeded =>
    /\ \A t \in TaskIds : tasks[t].st \in {"idle", "fulfilled"}
    /\ \A t \in TaskIds : Range(Ids(tasks[t].blocks)) \subseteq Range(Ids(allBlocks))
    /\ ~malformed =>
         \A b \in Range(Ids(allBlocks)) :
           (RemoteBlock[b].has_children /\ ~IsBoundary(b)) =>
             Range(RemoteChildren[b]) \subseteq Range(Ids(allBlocks))

\* A successful run whose last answered request was the second page of the
\* deepest level.
C20_Witness ==
  /\ PageGetSucceeded
  /\ ~malformed
  /\ Len(allBlocks) > 0
  /\ allBlocks[Len(allBlocks)].id = "A1a"
  /\ Cardinality({ t \in TaskIds : tasks[t].st = "fulfilled" }) = 5

\* ------------------------------------------------------------------------
\* C14
\* ------------------------------------------------------------------------

\* C14: a successful `page get <id> --raw` has written to stdout exactly one
\* JSON object, holding the page and the array of the blocks collected, and
\* nothing else, also for a page without blocks.
C14_RawWritesOneJsonObject ==
  (PageGetSucceeded /\ raw) => stdout = << Line("json_object", pageId, 0, allBlocks) >>

\* The revision at part_007 wrote the one object for the page without blocks.
C14_ObjectWrittenByLaterRevision ==
  /\ PageGetSucceeded /\ raw
  /\ snapshot = "part_007"
  /\ pageId = EmptyPageId
  /\ stdout = << Line("json_object", pageId, 0, <<>>) >>

\* ------------------------------------------------------------------------
\* C12
\* ------------------------------------------------------------------------

\* The pages of a listing whose parent is the workspace, in listing order.
WorkspaceLevelPages(l) ==
  SelectSeq(l, LAMBDA x :
    RemoteObject[x].object = "page" /\ RemoteObject[x].parent.type = "workspace")

\* The pages that `search --workspace` printed, in output order.
WorkspacePagesOnStdout ==
  LET shown == SelectSeq(stdout, LAMBDA ln : ln.kind = "workspace_page")
  IN  [ i \in 1..Len(shown) |-> shown[i].id ]

SearchWorkspaceSucceeded ==
  cmd = "search" /\ options.workspace /\ pc = "exited" /\ exitCode = 0

\* C12: with well-formed responses a successful `search --workspace` has
\* requested every result page of the listing, one request per page, has
\* scanned every listed page, and has printed exactly the listed pages whose
\* parent is the workspace, each once and in listing order.
C12_WorkspaceModeListsExactlyTheRoots ==
  (SearchWorkspaceSucceeded /\ ~malformed) =>
    /\ Len(requests) = PagesNeeded(Len(SearchMatches(listing, "page")), WORKSPACE_PAGE_SIZE)
    /\ totalScanned = Len(SearchMatches(listing, "page"))
    /\ workspacePages = WorkspaceLevelPages(listing)
    /\ WorkspacePagesOnStdout = WorkspaceLevelPages(listing)

\* The two workspace-level pages came from different result pages, between
\* them a page nested in a page and a page of a database.
C12_Witness ==
  /\ SearchWorkspaceSucceeded /\ ~malformed
  /\ Len(requests) = 2
  /\ {"K1", "N1"} \subseteq Range(listing)
  /\ WorkspacePagesOnStdout = <<"W1", "W2">>

\* ------------------------------------------------------------------------
\* C13
\* ------------------------------------------------------------------------

\* C13: a run of `search --workspace` that met no rejected request and no
\* malformed response ends like the run without --cursor and --limit,
\* whatever values were given for them: exit status 0 and the
\* workspace-level pages of the listing on stdout.
C13_CursorAndLimitIgnored ==
  ( /\ cmd = "search" /\ options.workspace
    /\ NormalizeFilterOption(options.filter) = "page"
    /\ pc = "exited" /\ Len(failed) = 0 /\ ~malformed ) =>
      /\ exitCode = 0
      /\ stderr = <<>>
      /\ WorkspacePagesOnStdout = WorkspaceLevelPages(listing)

\* ------------------------------------------------------------------------
\* C15
\* ------------------------------------------------------------------------

\* The result lines the normal mode of `search` printed.
ResultsOnStdout == { i \in 1..Len(stdout) : stdout[i].kind = "result" }

\* C15: every request `search` sends in its normal mode carries a page_size
\* between 1 and 100, and a successful run given a numeric --limit prints no
\* more results than that limit.
C15_PageSizeWithinRange ==
  (cmd = "search" /\ ~options.workspace) =>
    /\ \A i \in 1..Len(requests) : requests[i].page_size \in 1..100
    /\ (pc = "exited" /\ exitCode = 0 /\ ~ParseInt(options.limit).nan) =>
         Cardinality(ResultsOnStdout) <= ParseInt(options.limit).value

\* ------------------------------------------------------------------------
\* C16
\* ------------------------------------------------------------------------

\* C16: `auth-internal set t` leaves a config with NOTION_TOKEN = t and
\* auth_method = internal; a clear that follows a successful set leaves a
\* config with neither key and reports the removal; a clear that follows a
\* clear leaves the file as it found it and reports that no token is stored.
C16_SetClearClear ==
  \A i \in 1..Len(history) :
    LET h == history[i]
    IN  /\ (h.cmd = "auth-internal set" /\ Truthy(h.arg)) =>
             /\ h.exitCode = 0
             /\ ReadConfig(h.after)["NOTION_TOKEN"] = h.arg
             /\ ReadConfig(h.after)["auth_method"] = "internal"
        /\ (h.cmd = "auth-internal clear" /\ i > 1) =>
             /\ ( history[i - 1].cmd = "auth-internal set" /\ history[i - 1].exitCode = 0 ) =>
                  /\ h.after.kind = "json"
                  /\ h.after.content["NOTION_TOKEN"] = Undefined
                  /\ h.after.content["auth_method"] = Undefined
                  /\ h.stdout[1].kind = "token_removed"
                  /\ h.exitCode = 0
             /\ history[i - 1].cmd = "auth-internal clear" =>
                  /\ h.after = h.before
                  /\ h.stdout = << Line("no_stored_token", "", 0, <<>>) >>
                  /\ h.exitCode = 0

\* set, clear and clear again were run against a file left by an OAuth login.
C16_Witness ==
  /\ Len(history) = 3
  /\ history[1].cmd = "auth-internal set" /\ history[1].arg = "secret_a"
  /\ ReadConfig(history[1].before)["auth_method"] = "oauth"
  /\ history[2].cmd = "auth-internal clear"
  /\ history[3].cmd = "auth-internal clear"
  /\ history[3].after = history[2].after

\* ------------------------------------------------------------------------
\* C21
\* ------------------------------------------------------------------------

\* The command runs cursor loops: the level fetches of `page get`, the search
\* loop of `integration pages` and the loop of `search --workspace`.
RunsCursorLoops ==
  \/ cmd \in {"page get", "integration pages"}
  \/ cmd = "search" /\ options.workspace

\* The requests of the cursor loop over target t, as indexes of requests.
LoopRequests(endpoint, t) ==
  { i \in 1..Len(requests) : requests[i].endpoint = endpoint /\ requests[i].target = t }

LoopResponses(endpoint, t) ==
  { r \in received : r.endpoint = endpoint /\ r.target = t }

Max(S) == CHOOSE x \in S : \A y \in S : y <= x

\* C21: in every cursor loop the first request carries no cursor, every
\* later request carries the next_cursor of the response to the request
\* before it, and at most one request of the loop is unanswered.
C21_LoopRequestsAreSequential ==
  RunsCursorLoops =>
    \A i \in 1..Len(requests) :
      LET q       == requests[i]
          mine    == LoopRequests(q.endpoint, q.target)
          earlier == { j \in mine : j < i }
      IN  q.endpoint \in {"blocks.retrieveChildren", "search"} =>
            /\ earlier = {} <=> q.start_cursor = Undefined
            /\ earlier # {} =>
                 \E r \in LoopResponses(q.endpoint, q.target) :
                   /\ r.start_cursor = requests[Max(earlier)].start_cursor
                   /\ r.has_more
                   /\ r.next_cursor = q.start_cursor
            /\ Cardinality(mine) <= Cardinality(LoopResponses(q.endpoint, q.target)) + 1

\* The level fetch of the page has issued its second request, with the
\* cursor of the one response it received, and that request is unanswered.
C21_Witness ==
  /\ cmd = "page get"
  /\ tasks[PageId].st = "fetching"
  /\ Cardinality(LoopRequests("blocks.retrieveChildren", PageId)) = 2
  /\ Cardinality(LoopResponses("blocks.retrieveChildren", PageId)) = 1

\* ------------------------------------------------------------------------
\* C22
\* ------------------------------------------------------------------------

\* C22 as stated: the blocks of the result that are direct children of the
\* page passed to `page get` carry depth 1.
C22_PageChildrenHaveDepthOne ==
  \A i \in 1..Len(allBlocks) :
    allBlocks[i].id \in Range(RemoteChildren[pageId]) => allBlocks[i].depth = 1

\* C22 amended: the direct children of the page carry depth 0 and every
\* other block the depth of its parent block plus one, that is, every block
\* of the result carries the number of blocks between it and the page.
C22_DepthCountsBlockAncestors ==
  \A i \in 1..Len(allBlocks) :
    /\ allBlocks[i].id \in Range(RemoteChildren[pageId]) => allBlocks[i].depth = 0
    /\ allBlocks[i].depth = Cardinality(RemoteAncestors(allBlocks[i].id) \ {pageId})

\* A finished traversal whose first block is a child of the page and whose
\* result reaches the third level.
C22_Witness ==
  /\ PageGetSucceeded
  /\ Len(allBlocks) > 0
  /\ allBlocks[1] = [id |-> "A", depth |-> 0]
  /\ \E i \in 1..Len(allBlocks) : allBlocks[i] = [id |-> "A1a", depth |-> 2]

\* ------------------------------------------------------------------------
\* C23
\* ------------------------------------------------------------------------

\* The blocks a traversal of the page runs a cursor loop for.
Recursable(id) ==
  { b \in Range(SerialOrder(id)) : RemoteBlock[b].has_children /\ ~IsBoundary(b) }

RECURSIVE SumOfPages(_)
SumOfPages(S) ==
  IF S = {} THEN 0
  ELSE LET t == CHOOSE x \in S : TRUE
       IN  PagesNeeded(Len(RemoteChildren[t]), BLOCKS_PAGE_SIZE) + SumOfPages(S \ {t})

\* pages.retrieve and every page of every level of the tree.
RequestsOfFullTraversal(id) == 1 + SumOfPages({id} \cup Recursable(id))

\* The steps a `page get` has taken: requests issued, responses received,
\* rejections handled, and the end of the process.
Progress ==
  Len(requests) + Cardinality(received) + Len(failed) + IF pc = "exited" THEN 1 ELSE 0

\* C23: a `page get` never issues more requests than pages.retrieve and the
\* pages of the levels of the tree, every step of it adds to a count of steps
\* that is bounded by twice that number, and until it has ended a request is
\* in flight whose answer is its next step: it ends once its requests are
\* answered. It ends with status 0 and nothing on stderr or with status 1
\* and one error line, and a successful run over well-formed responses has
\* run exactly one cursor loop for the page and for each recursable block.
C23_TraversalTerminates ==
  /\ [](cmd = "page get" =>
          /\ Len(requests) <= RequestsOfFullTraversal(pageId)
          /\ Progress <= 2 * RequestsOfFullTraversal(pageId) + 1)
  /\ [][cmd' = "page get" => Progress' > Progress]_vars
  /\ []((cmd = "page get" /\ pc # "exited") =>
          \/ pc = "retrieving"
          \/ \E t \in TaskIds : tasks[t].st = "fetching")
  /\ []((cmd = "page get" /\ pc = "exited") =>
          \/ exitCode = 0 /\ stderr = <<>>
          \/ exitCode = 1 /\ Len(stderr) = 1)
  /\ []((PageGetSucceeded /\ ~malformed) =>
          \A t \in TaskIds :
            Cardinality(FirstRequests(t)) =
              IF t \in {pageId} \cup Recursable(pageId) THEN 1 ELSE 0)

\* A traversal ended in success after every page of every level was
\* requested.
C23_Witness ==
  /\ PageGetSucceeded /\ ~malformed
  /\ pageId = PageId
  /\ Len(requests) = RequestsOfFullTraversal(pageId)
  /\ Len(requests) > Cardinality(Recursable(pageId)) + 2

\* ------------------------------------------------------------------------
\* C24
\* ------------------------------------------------------------------------

\* C24: no two requests of a command have the same endpoint, target and
\* cursor, and a request that was rejected stands exactly once among the
\* requests issued: it was not issued again.
C24_EveryRequestAttemptedOnce ==
  /\ \A i, j \in 1..Len(requests) :
       ( /\ requests[i].endpoint = requests[j].endpoint
         /\ requests[i].target = requests[j].target
         /\ requests[i].start_cursor = requests[j].start_cursor ) => i = j
  /\ \A k \in 1..Len(failed) :
       Cardinality({ i \in 1..Len(requests) :
                      /\ requests[i].endpoint = failed[k].endpoint
                      /\ requests[i].target = failed[k].target
                      /\ requests[i].start_cursor = failed[k].start_cursor }) = 1

\* A request of a later page of a level was rejected after several loops
\* had issued requests.
C24_Witness ==
  /\ Len(failed) = 1
  /\ failed[1].endpoint = "blocks.retrieveChildren"
  /\ Truthy(failed[1].start_cursor)
  /\ Cardinality({ requests[i].target : i \in 1..Len(requests) }) >= 3

\* ------------------------------------------------------------------------
\* C25
\* ------------------------------------------------------------------------

\* The blocks reachable from the page through recursable blocks.
Reachable(id) == Range(SerialOrder(id))

\* C25: the result of a successful `page get` over well-formed responses
\* holds exactly the blocks reachable from the page through blocks with
\* has_children set and a type other than child_page and child_database,
\* each of them once, whatever the order of the answers.
C25_ExactlyTheReachableBlocks ==
  (PageGetSucceeded /\ ~malformed) =>
    /\ Range(Ids(allBlocks)) = Reachable(pageId)
    /\ Len(allBlocks) = Cardinality(Reachable(pageId))

\* A successful run in which a later sibling subtree was answered before an
\* earlier one, and the children of the child page and of the child
\* database are left out.
C25_Witness ==
  /\ PageGetSucceeded /\ ~malformed
  /\ pageId = PageId
  /\ Ids(allBlocks) # SerialOrder(pageId)
  /\ {"B1", "A2x"} \cap Range(Ids(allBlocks)) = {}

\* ------------------------------------------------------------------------
\* C26
\* ------------------------------------------------------------------------

\* s stands in t as one contiguous run.
IsRunOf(s, t) ==
  \E k \in 0..(Len(t) - Len(s)) : \A i \in 1..Len(s) : t[k + i] = s[i]

\* C26: in every state of every interleaving, a block of allBlocks stands
\* after its parent block, and the blocks a level fetch returned stand in
\* allBlocks as one contiguous run, in the order of the responses, which for
\* well-formed responses is the order of the remote child list.
C26_AfterParentAndContiguous ==
  /\ \A i, j \in 1..Len(allBlocks) :
       allBlocks[i].id = RemoteParent(allBlocks[j].id) => i < j
  /\ \A t \in TaskIds :
       tasks[t].st \in {"joining", "fulfilled"} =>
         /\ IsRunOf(tasks[t].blocks, allBlocks)
         /\ ~malformed => Ids(tasks[t].blocks) = RemoteChildren[t]

\* The three children of A stand together in the result although the
\* levels of C and of E were answered before the level of A.
C26_Witness ==
  /\ PageGetSucceeded /\ ~malformed
  /\ \E k \in 1..Len(allBlocks) :
       /\ k + 2 <= Len(allBlocks)
       /\ Ids(SubSeq(allBlocks, k, k + 2)) = RemoteChildren["A"]
       /\ \E i, j \in 1..(k - 1) : allBlocks[i].id = "C1" /\ allBlocks[j].id = "E1"

\* ------------------------------------------------------------------------
\* C27
\* ------------------------------------------------------------------------

\* The result page (1, 2, ...) on which the i-th page of the listing arrives.
ResultPageOf(i) == ((i - 1) \div Min(SEARCH_PAGE_SIZE, ServerPageCap)) + 1

\* C27: the roots reported by a successful `integration pages` over
\* well-formed responses are the roots of the same set of pages returned in
\* index order and in the opposite order, so they depend on the set only;
\* and a page whose parent page arrives on a later result page is not
\* reported.
C27_RootsDependOnTheSetOnly ==
  (IntegrationPagesSucceeded /\ ~malformed) =>
    /\ \A order \in {IndexOrder, Reverse(IndexOrder)} :
         Range(RootPages(Restrict(order, Range(allPages)))) = RootsOnStdout
    /\ \A i, j \in 1..Len(allPages) :
         ( /\ RemoteObject[allPages[i]].parent.type = "page_id"
           /\ RemoteObject[allPages[i]].parent.id = allPages[j]
           /\ ResultPageOf(i) < ResultPageOf(j) )
         => allPages[i] \notin RootsOnStdout

\* K3 arrived on the first result page, its parent W2 on a later one, and
\* the roots reported are W2 and another page, not K3.
C27_Witness ==
  /\ IntegrationPagesSucceeded /\ ~malformed
  /\ {"K3", "W2"} \subseteq Range(allPages)
  /\ ResultPageOf(Pos(allPages, "K3")) = 1
  /\ ResultPageOf(Pos(allPages, "W2")) > 1
  /\ Cardinality(RootsOnStdout) > 1
  /\ "W2" \in RootsOnStdout /\ "K3" \notin RootsOnStdout

\* ------------------------------------------------------------------------
\* C28
\* ------------------------------------------------------------------------

\* The response announces more items and carries a null or empty cursor.
EndsLoopEarly(r) == r.has_more /\ ~Truthy(r.next_cursor)

\* The responses the step has just delivered.
JustReceived == received' \ received

\* C28: a cursor loop has issued a request with the next_cursor of a
\* response it received if and only if that response had has_more set and a
\* non-empty next_cursor; and the step that receives a response with
\* has_more set and a null or empty next_cursor issues no request for that
\* loop, reports no error and does not exit with a failure.
C28_LoopContinuesIffCursor ==
  /\ [](RunsCursorLoops =>
         \A r \in received :
           (\E i \in LoopRequests(r.endpoint, r.target) :
              requests[i].start_cursor = r.next_cursor)
           <=> (r.has_more /\ Truthy(r.next_cursor)))
  /\ [][ \A r \in JustReceived :
           (RunsCursorLoops' /\ EndsLoopEarly(r)) =>
             /\ failed' = failed
             /\ stderr' = stderr
             /\ exitCode' \in {exitCode, 0}
             /\ LoopRequests(r.endpoint, r.target)' = LoopRequests(r.endpoint, r.target)
        ]_vars

\* `page get` or `integration pages` ended in success on what it had when a
\* response set has_more without a usable cursor: part of the remote items
\* is missing from the result and nothing was written to stderr.
C28_Witness ==
  /\ pc = "exited" /\ exitCode = 0 /\ stderr = <<>> /\ Len(failed) = 0
  /\ \E r \in received : EndsLoopEarly(r)
  /\ \/ /\ cmd = "page get"
        /\ Len(allBlocks) > 0
        /\ Len(allBlocks) < Cardinality(Reachable(pageId))
     \/ /\ cmd = "integration pages"
        /\ Len(allPages) > 0
        /\ Len(allPages) < Len(SearchMatches(listing, "page"))

\* ------------------------------------------------------------------------
\* C29
\* ------------------------------------------------------------------------

\* The parent of p is a block, or a page_id reference with an empty ID.
HasBlockOrEmptyPageParent(p) ==
  \/ RemoteObject[p].parent.type = "block_id"
  \/ RemoteObject[p].parent.type = "page_id" /\ RemoteObject[p].parent.id = ""

\* C29: no page reported as a root has a block_id parent or a page_id
\* parent with an empty ID.
C29_BlockOrEmptyParentNeverRoot ==
  \A p \in RootsOnStdout : ~HasBlockOrEmptyPageParent(p)

\* The listing held a page under a block and a page with an empty page_id,
\* roots were reported, and neither of the two is among them.
C29_Witness ==
  /\ IntegrationPagesSucceeded
  /\ {"N3", "N4"} \subseteq Range(allPages)
  /\ RootsOnStdout # {}
  /\ {"N3", "N4"} \cap RootsOnStdout = {}

\* ------------------------------------------------------------------------
\* C30
\* ------------------------------------------------------------------------

OAuthMetadataKeys == {"oauth_bot_id", "oauth_workspace_name", "oauth_workspace_id"}

\* C30: in every configuration left by auth-internal set and clear and by
\* auth-public login and logout, a key of the OAuth metadata is present
\* only while auth_method is "oauth".
C30_OAuthKeysOnlyWhileOAuth ==
  LET cfg == ReadConfig(config)
  IN  (\E k \in OAuthMetadataKeys : cfg[k] # Undefined) => cfg["auth_method"] = "oauth"

\* login stored the metadata and auth-internal clear was run after it: the
\* token and auth_method are gone and the three metadata keys are left.
C30_MetadataLeftByClear ==
  /\ Len(history) >= 2
  /\ history[Len(history) - 1].cmd = "auth-public login"
  /\ history[Len(history) - 1].exitCode = 0
  /\ history[Len(history)].cmd = "auth-internal clear"
  /\ ReadConfig(config)["auth_method"] = Undefined
  /\ \A k \in OAuthMetadataKeys : ReadConfig(config)[k] # Undefined

====
